---- MODULE Spec2Model ----
(***************************************************************************)
(* Model of src/arduino/lora_gaz.ino: a LoRa gas sensor node on an         *)
(* ATmega328.  setup() brings the radio up once; loop() heats the sensor,  *)
(* samples two analog inputs, sends 4 bytes and sleeps on watchdog ticks.  *)
(*                                                                         *)
(* Time is counted in units of MsPerUnit milliseconds.  PassTime lets time *)
(* pass while a statement blocks (delay, a radio call) or the processor is *)
(* halted; the watchdog interrupt is due every Period units and the        *)
(* MsTimer2 interrupt Timeout units after MsTimer2::start().  Statements   *)
(* that take no measurable time are single steps, and an interrupt that is *)
(* due interleaves with them in every order.                               *)
(*                                                                         *)
(* The watchdog interrupt is the only interrupt that ends a halt: timer 2   *)
(* is stopped and the radio is silent once ttn.sendBytes has returned.     *)
(*                                                                         *)
(* wdt_cpt is a 16-bit volatile int accessed bytewise by the 8-bit core;   *)
(* its value stays far below 256 in every run, so the high byte is always  *)
(* zero and a store or load split by the interrupt yields the value before *)
(* or after the increment: each access is one step.                        *)
(***************************************************************************)
EXTENDS Integers, Sequences, FiniteSets, TLC

(* ------------------------------ constants ------------------------------ *)
MsPerUnit == 100
DELAY_MS == 100
WDT_PERIOD_MS == 8000
TIMEOUT_MS == 15000
HEAT_SEC == 5
SLEEP_SEC == 120
TTN_PORT == 1
ADC_MAX == 1023
gas_sensor_pin == 0
temp_sensor_pin == 1

(* ------------------------------- bounds -------------------------------- *)
\* longest time (units) ttn.personalize / ttn.sendBytes may block
MaxRadioTime == 3
\* longest time (units) ttn.showStatus may block
MaxStatusTime == 151
\* goToSleep arguments tried by SpecSleep: 0..MaxSleepArg
MaxSleepArg == 26
\* value of wdt_cpt on entry tried by SpecSleep: 0..MaxAwakeTicks
MaxAwakeTicks == 2
\* ports tried by SpecPack: 1..MaxPort
MaxPort == 2
MaxHeatSec == 33

Period == WDT_PERIOD_MS \div MsPerUnit
Timeout == TIMEOUT_MS \div MsPerUnit
DelayUnits == DELAY_MS \div MsPerUnit

\* analogRead results tried by Spec
ADCSamples == {0, 300, 900, ADC_MAX}
ADCRange == 0..ADC_MAX
Statuses == {"success", "link_failure", "config_failure"}
Unset == -1
NoTx == <<>>

VARIABLES
  pc,         \* position of main-line execution
  waited,     \* units the current blocking statement has blocked so far
  halted,     \* processor is in SLEEP_MODE_PWR_DOWN
  wdtie,      \* watchdog interrupt armed (WDTCSR.WDIE)
  elapsed,    \* units since the watchdog last fired (or was armed)
  wdt_cpt,    \* volatile int wdt_cpt
  f_wdt,      \* volatile int f_wdt
  sec,        \* parameter of goToSleep
  hsec,       \* parameter of heat
  heatFor,    \* units the delay of heat blocks for
  heatPin,    \* level of HEAT_PIN
  heatMode,   \* direction of HEAT_PIN
  rstPin,     \* level of RST_PIN
  aref,       \* analog reference in force
  gas, temp,  \* arguments of loraSendValues (Unset until evaluated)
  port,       \* argument of loraSendValues
  data,       \* char data[4] of loraSendValues
  tx,         \* what ttn.sendBytes was handed, while it runs
  msSet,      \* MsTimer2::set was called
  msArmed,    \* MsTimer2 running
  msCount,    \* units since MsTimer2::start
  radioUp,    \* RN2483 answered during bring-up
  joined,     \* ttn.personalize succeeded
  sendStatus, \* value loraSendValues returned, until loop() drops it
  log,        \* number of "Timeout !" lines printed
  ticks,      \* history: watchdog firings between goToSleep's entry reset and the test that ends its loop
  iters,      \* history: iterations of goToSleep's loop in this call
  haltTicks,  \* history: watchdog firings of this call that ended a halt
  req,        \* history: the argument goToSleep was called with
  awake,      \* history: the value of wdt_cpt that goToSleep's entry reset overwrote
  lost,       \* history: some transmission of this run returned a failure
  samples,    \* history: the conversions of this cycle: input, reference, result
  cyc,        \* history: steps completed in the current cycle of loop()
  boot        \* history: startup steps completed

vars == <<pc, waited, halted, wdtie, elapsed, wdt_cpt, f_wdt, sec, heatPin,
          heatMode, hsec, heatFor, rstPin, aref, gas, temp, port, data, tx, msSet, msArmed,
          msCount, radioUp, joined, sendStatus, log, ticks, iters, haltTicks,
          req, awake, lost, samples, cyc, boot>>

machine == <<wdtie, wdt_cpt, f_wdt, sec, heatPin, heatMode, hsec, heatFor, rstPin, aref, gas,
             temp, port, data, tx, msSet, msArmed, radioUp, joined, sendStatus,
             log, ticks, iters, haltTicks, req, awake, lost, samples, cyc, boot>>

hist == <<ticks, iters, haltTicks, req, awake, lost, samples, cyc, boot>>

(* ----------------------------- arithmetic ------------------------------ *)
\* value of a 16-bit int holding x
Int16(x) == LET m == x % 65536 IN IF m >= 32768 THEN m - 65536 ELSE m
\* an int converted to unsigned long (x + 2^32 when negative), divided by q;
\* 2^32 = 2 * 2147483647 + 2 is never formed
ULongDiv(x, q) ==
  IF x >= 0 THEN x \div q
  ELSE 2 * (2147483647 \div q) + ((2 * (2147483647 % q) + 2 + x) \div q)
\* int stored into a char (signed, 8 bits)
ToChar(x) == LET m == x % 256 IN IF m >= 128 THEN m - 256 ELSE m
\* a char read through a uint8_t pointer
AsByte(c) == c % 256
Shr8(x) == x \div 256
\* mutant: the division by eight rounds up
Shr3_ceil(x) == (x + 7) \div 8
Shr3(x) == x \div 8
And255(x) == x % 256
Min(a, b) == IF a < b THEN a ELSE b

\* mutant: the low byte of each pair first
PackValues_lowFirst(g, t) ==
  << ToChar(And255(g)), ToChar(Shr8(g)), ToChar(And255(t)), ToChar(Shr8(t)) >>

\* char data[4] = {gas >>8, gas & 0xFF, temp >>8, temp & 0xFF}
PackValues(g, t) ==
  << ToChar(Shr8(g)), ToChar(And255(g)), ToChar(Shr8(t)), ToChar(And255(t)) >>

\* ttn.sendBytes(data, length, port): the bytes the radio receives
SendBytesArg(d, length, p) ==
  [payload |-> [i \in 1..length |-> AsByte(d[i])], length |-> length, port |-> p]

\* delay(1000*sec) of heat(): the product is a 16-bit int, delay takes an
\* unsigned long; the time it blocks, in units, when the product wraps
HeatDelay(s) == ULongDiv(Int16(1000 * s), MsPerUnit)
\* a product outside the 16-bit int is undefined: the build may wrap it or
\* multiply in a wider register
HeatDelays(s) ==
  IF 1000 * s = Int16(1000 * s) THEN {HeatDelay(s)}
  ELSE {HeatDelay(s), (1000 * s) \div MsPerUnit}

(* -------------------------------- time --------------------------------- *)
\* blocking statements: shortest and longest time they take
MinDur(p) ==
  CASE p = "lp_delay"  -> DelayUnits
    [] p = "ht_delay"  -> heatFor
    [] p = "rr_low"    -> DelayUnits
    [] p = "rr_high"   -> DelayUnits
    [] p = "gs_delay1" -> DelayUnits
    [] p = "gs_delay2" -> DelayUnits
    [] OTHER -> 0

MaxDur(p) ==
  CASE p = "li_status"      -> MaxStatusTime
    [] p = "lj_personalize" -> MaxRadioTime
    [] p = "lsv_send"       -> MaxRadioTime
    [] OTHER -> MinDur(p)

WdtDue == wdtie /\ elapsed >= Period
TimerDue == msArmed /\ msCount >= Timeout

\* units until the next interrupt is due (a large number when none is armed)
NextEvent ==
  Min(IF wdtie THEN Period - elapsed ELSE 100000,
      IF msArmed THEN Timeout - msCount ELSE 100000)

\* the current statement has blocked long enough to complete
Ready(p) == pc = p /\ ~halted /\ waited >= MinDur(p)

Goto(q) == pc' = q /\ waited' = 0

Clock == <<elapsed, msCount>>

\* longest step of time possible now: up to the next interrupt, and no longer
\* than the current statement may still block (timer 2 stands still in a halt)
TimeCap ==
  IF halted THEN (IF wdtie THEN Period - elapsed ELSE 0)
  ELSE Min(NextEvent, MaxDur(pc) - waited)

\* time passes: the processor is halted, or the current statement blocks; a
\* halt or a delay is interrupted only when an interrupt is due
PassTime ==
  /\ ~WdtDue /\ ~TimerDue
  /\ \E d \in 1..TimeCap :
       /\ (halted \/ waited + d < MinDur(pc)) => d = TimeCap
       /\ waited' = IF halted THEN waited ELSE waited + d
       /\ elapsed' = IF wdtie THEN elapsed + d ELSE elapsed
       /\ msCount' = IF msArmed /\ ~halted THEN msCount + d ELSE msCount
  /\ UNCHANGED <<pc, halted, machine>>

(* ----------------------------- interrupts ------------------------------ *)
CountingPcs == {"gs_print", "gs_test", "gs_delay1", "s8_sleep", "s8_wake", "gs_delay2"}
SleepPcs == CountingPcs \cup {"gs_entry", "gs_reset2", "gs_wake"}

\* mutant: the handler also raises f_wdt (the statement commented out at line 151)
WDT_vect_flag ==
  /\ WdtDue
  /\ f_wdt' = 1
  /\ wdt_cpt' = Int16(wdt_cpt + 1)
  /\ elapsed' = 0
  /\ halted' = FALSE
  /\ ticks' = IF pc \in CountingPcs THEN ticks + 1 ELSE ticks
  /\ haltTicks' = IF halted THEN haltTicks + 1 ELSE haltTicks
  /\ UNCHANGED <<pc, waited, wdtie, sec, heatPin, heatMode, hsec, heatFor, rstPin,
                 aref, gas, temp, port, data, tx, msSet, msArmed, msCount,
                 radioUp, joined, sendStatus, log, iters, req, awake, lost, samples, cyc, boot>>

\* ISR(WDT_vect) { wdt_cpt++; }  -- any interrupt also ends the halt
WDT_vect ==
  /\ WdtDue
  /\ wdt_cpt' = Int16(wdt_cpt + 1)
  /\ elapsed' = 0
  /\ halted' = FALSE
  /\ ticks' = IF pc \in CountingPcs THEN ticks + 1 ELSE ticks
  /\ haltTicks' = IF halted THEN haltTicks + 1 ELSE haltTicks
  /\ UNCHANGED <<pc, waited, wdtie, f_wdt, sec, heatPin, heatMode, hsec, heatFor, rstPin,
                 aref, gas, temp, port, data, tx, msSet, msArmed, msCount,
                 radioUp, joined, sendStatus, log, iters, req, awake, lost, samples, cyc, boot>>

\* mutant: the handler also clears the tick counter
timeoutHandler_clear ==
  /\ TimerDue
  /\ log' = log + 1
  /\ msArmed' = FALSE
  /\ msCount' = 0
  /\ wdt_cpt' = 0
  /\ UNCHANGED <<pc, waited, halted, wdtie, elapsed, f_wdt, sec, heatPin,
                 heatMode, hsec, heatFor, rstPin, aref, gas, temp, port, data, tx, msSet,
                 radioUp, joined, sendStatus, hist>>

\* timeoutHandler(): println("Timeout !"); MsTimer2::stop();
timeoutHandler ==
  /\ TimerDue
  /\ log' = log + 1
  /\ msArmed' = FALSE
  /\ msCount' = 0
  /\ UNCHANGED <<pc, waited, halted, wdtie, elapsed, wdt_cpt, f_wdt, sec, heatPin,
                 heatMode, hsec, heatFor, rstPin, aref, gas, temp, port, data, tx, msSet,
                 radioUp, joined, sendStatus, hist>>

(* ------------------------------- setup() ------------------------------- *)
\* debugSerial.begin(9600); pinMode(HEAT_PIN, OUTPUT);
setup_pinMode ==
  /\ Ready("su_pin")
  /\ heatMode' = "OUTPUT"
  /\ boot' = Append(boot, "pin")
  /\ Goto("su_timer")
  /\ UNCHANGED <<halted, wdtie, Clock, wdt_cpt, f_wdt, sec, hsec, heatFor, heatPin,
                 rstPin, aref, gas, temp, port, data, tx, msSet, msArmed, radioUp,
                 joined, sendStatus, log, ticks, iters, haltTicks, req, awake, lost,
                 samples, cyc>>

\* MsTimer2::set(15000,timeoutHandler); f_wdt=0;
setup_timer ==
  /\ Ready("su_timer")
  /\ msSet' = TRUE
  /\ f_wdt' = 0
  /\ Goto("su_wdt")
  /\ UNCHANGED <<halted, wdtie, Clock, wdt_cpt, sec, heatPin, heatMode, hsec, heatFor, rstPin,
                 aref, gas, temp, port, data, tx, msArmed, radioUp, joined,
                 sendStatus, log, hist>>

\* mutant: the watchdog interrupt is not enabled (WDIE left clear)
setupWatchdog_noWDIE ==
  /\ Ready("su_wdt")
  /\ wdtie' = FALSE
  /\ elapsed' = 0
  /\ boot' = Append(boot, "wdt")
  /\ Goto("rr_begin")
  /\ UNCHANGED <<halted, msCount, wdt_cpt, f_wdt, sec, heatPin, heatMode, hsec, heatFor, rstPin,
                 aref, gas, temp, port, data, tx, msSet, msArmed, radioUp, joined,
                 sendStatus, log, ticks, iters, haltTicks, req, awake, lost, samples, cyc>>

\* setupWatchdog(): interrupt mode, 8.0 seconds
setupWatchdog ==
  /\ Ready("su_wdt")
  /\ wdtie' = TRUE
  /\ elapsed' = 0
  /\ boot' = Append(boot, "wdt")
  /\ Goto("rr_begin")
  /\ UNCHANGED <<halted, msCount, wdt_cpt, f_wdt, sec, heatPin, heatMode, hsec, heatFor, rstPin,
                 aref, gas, temp, port, data, tx, msSet, msArmed, radioUp, joined,
                 sendStatus, log, ticks, iters, haltTicks, req, awake, lost, samples, cyc>>

\* resetRN2483(): digitalWrite(RST_PIN, LOW); then delay(100)
resetRN2483_low ==
  /\ Ready("rr_begin")
  /\ rstPin' = "LOW"
  /\ Goto("rr_low")
  /\ UNCHANGED <<halted, wdtie, Clock, wdt_cpt, f_wdt, sec, heatPin, heatMode, hsec, heatFor,
                 aref, gas, temp, port, data, tx, msSet, msArmed, radioUp, joined,
                 sendStatus, log, hist>>

\* digitalWrite(RST_PIN, HIGH); then delay(100)
resetRN2483_high ==
  /\ Ready("rr_low")
  /\ rstPin' = "HIGH"
  /\ Goto("rr_high")
  /\ UNCHANGED <<halted, wdtie, Clock, wdt_cpt, f_wdt, sec, heatPin, heatMode, hsec, heatFor,
                 aref, gas, temp, port, data, tx, msSet, msArmed, radioUp, joined,
                 sendStatus, log, hist>>

\* loraSerial.begin(57600); MsTimer2::start();  then ttn.showStatus() blocks
loraInit_start ==
  /\ Ready("rr_high")
  /\ msArmed' = msSet
  /\ msCount' = 0
  /\ Goto("li_status")
  /\ UNCHANGED <<halted, wdtie, elapsed, wdt_cpt, f_wdt, sec, heatPin, heatMode, hsec, heatFor,
                 rstPin, aref, gas, temp, port, data, tx, msSet, radioUp, joined,
                 sendStatus, log, hist>>

\* mutant: MsTimer2::stop() is left out
loraInit_noStop ==
  /\ Ready("li_status")
  /\ \E ok \in BOOLEAN : radioUp' = ok
  /\ boot' = Append(boot, "radio")
  /\ Goto("lj_personalize")
  /\ UNCHANGED <<halted, wdtie, Clock, wdt_cpt, f_wdt, sec, heatPin, heatMode, hsec, heatFor,
                 rstPin, aref, gas, temp, port, data, tx, msSet, msArmed, joined,
                 sendStatus, log, ticks, iters, haltTicks, req, awake, lost, samples, cyc>>

\* ttn.showStatus() returns; MsTimer2::stop();
loraInit_stop ==
  /\ Ready("li_status")
  /\ \E ok \in BOOLEAN : radioUp' = ok
  /\ msArmed' = FALSE
  /\ msCount' = 0
  /\ boot' = Append(boot, "radio")
  /\ Goto("lj_personalize")
  /\ UNCHANGED <<halted, wdtie, elapsed, wdt_cpt, f_wdt, sec, heatPin, heatMode, hsec, heatFor,
                 rstPin, aref, gas, temp, port, data, tx, msSet, joined,
                 sendStatus, log, ticks, iters, haltTicks, req, awake, lost, samples, cyc>>

\* mutant: a failed join is attempted again
loraJoin_retry ==
  /\ Ready("lj_personalize")
  /\ \E ok \in BOOLEAN :
       /\ joined' = (ok /\ radioUp)
       /\ IF joined' THEN Goto("lp_delay") ELSE Goto("lj_personalize")
  /\ boot' = Append(boot, "join")
  /\ cyc' = <<>>
  /\ UNCHANGED <<halted, wdtie, Clock, wdt_cpt, f_wdt, sec, heatPin, heatMode, hsec, heatFor,
                 rstPin, aref, gas, temp, port, data, tx, msSet, msArmed, radioUp,
                 sendStatus, log, ticks, iters, haltTicks, req, awake, lost, samples>>

\* mutant: setup() does not return until the join has succeeded
loraJoin_blocking ==
  /\ Ready("lj_personalize")
  /\ \E ok \in BOOLEAN :
       /\ joined' = (ok /\ radioUp)
       /\ IF joined'
            THEN boot' = Append(boot, "join") /\ Goto("lp_delay")
            ELSE boot' = boot /\ UNCHANGED <<pc, waited>>
  /\ cyc' = <<>>
  /\ UNCHANGED <<halted, wdtie, Clock, wdt_cpt, f_wdt, sec, heatPin, heatMode, hsec, heatFor,
                 rstPin, aref, gas, temp, port, data, tx, msSet, msArmed, radioUp,
                 sendStatus, log, ticks, iters, haltTicks, req, awake, lost, samples>>

\* loraJoin(): ttn.personalize(devAddr,nwkSKey,appSKey) returns; setup() returns
loraJoin ==
  /\ Ready("lj_personalize")
  /\ \E ok \in BOOLEAN : joined' = (ok /\ radioUp)
  /\ boot' = Append(boot, "join")
  /\ cyc' = <<>>
  /\ Goto("lp_delay")
  /\ UNCHANGED <<halted, wdtie, Clock, wdt_cpt, f_wdt, sec, heatPin, heatMode, hsec, heatFor,
                 rstPin, aref, gas, temp, port, data, tx, msSet, msArmed, radioUp,
                 sendStatus, log, ticks, iters, haltTicks, req, awake, lost, samples>>

(* -------------------------------- loop() ------------------------------- *)
\* delay(100); heat(5);
call_heat ==
  /\ Ready("lp_delay")
  /\ hsec' = HEAT_SEC
  /\ Goto("ht_high")
  /\ UNCHANGED <<halted, wdtie, Clock, wdt_cpt, f_wdt, sec, heatPin, heatMode,
                 heatFor, rstPin, aref, gas, temp, port, data, tx, msSet, msArmed,
                 radioUp, joined, sendStatus, log, hist>>

\* mutant: the sensors are sampled without the heater step
heat_high_skipped ==
  /\ Ready("ht_high")
  /\ Goto("lp_args")
  /\ UNCHANGED <<halted, Clock, machine>>

\* digitalWrite(HEAT_PIN, HIGH); delay(1000*sec) starts
heat_high ==
  /\ Ready("ht_high")
  /\ heatPin' = "HIGH"
  /\ heatFor' \in HeatDelays(hsec)
  /\ Goto("ht_delay")
  /\ UNCHANGED <<halted, wdtie, Clock, wdt_cpt, f_wdt, sec, hsec, heatMode, rstPin,
                 aref, gas, temp, port, data, tx, msSet, msArmed, radioUp, joined,
                 sendStatus, log, hist>>

\* mutant: heat() returns without lowering the pin
heat_low_stays ==
  /\ Ready("ht_delay")
  /\ heatPin' = heatPin
  /\ cyc' = Append(cyc, "heat")
  /\ Goto("lp_args")
  /\ UNCHANGED <<halted, wdtie, Clock, wdt_cpt, f_wdt, sec, heatMode, hsec, heatFor, rstPin,
                 aref, gas, temp, port, data, tx, msSet, msArmed, radioUp, joined,
                 sendStatus, log, ticks, iters, haltTicks, req, awake, lost, samples, boot>>

\* delay(1000*sec) is over; digitalWrite(HEAT_PIN, LOW);
heat_low ==
  /\ Ready("ht_delay")
  /\ heatPin' = "LOW"
  /\ cyc' = Append(cyc, "heat")
  /\ Goto("lp_args")
  /\ UNCHANGED <<halted, wdtie, Clock, wdt_cpt, f_wdt, sec, heatMode, hsec, heatFor, rstPin,
                 aref, gas, temp, port, data, tx, msSet, msArmed, radioUp, joined,
                 sendStatus, log, ticks, iters, haltTicks, req, awake, lost, samples, boot>>

\* loraSendValues(getGasValue(),getTempValue(), 1): the arguments are evaluated
\* in an order the compiler chooses
call_getGasValue ==
  /\ Ready("lp_args")
  /\ gas = Unset
  /\ Goto("gg_ref")
  /\ UNCHANGED <<halted, Clock, machine>>

call_getTempValue ==
  /\ Ready("lp_args")
  /\ temp = Unset
  /\ Goto("gt_ref")
  /\ UNCHANGED <<halted, Clock, machine>>

\* analogRead(pin) converts the selected input against the reference selected
\* by the last analogReference() and returns v
analogRead(pin, v) == [pin |-> pin, ref |-> aref, val |-> v]

\* analogReference(INTERNAL);
getGasValue_ref ==
  /\ Ready("gg_ref")
  /\ aref' = "INTERNAL"
  /\ Goto("gg_read")
  /\ UNCHANGED <<halted, wdtie, Clock, wdt_cpt, f_wdt, sec, heatPin, heatMode, hsec, heatFor,
                 rstPin, gas, temp, port, data, tx, msSet, msArmed, radioUp, joined,
                 sendStatus, log, hist>>

\* int val = analogRead(gas_sensor_pin); ... return val;
getGasValue_read ==
  /\ Ready("gg_read")
  /\ \E v \in ADCSamples :
       /\ gas' = v
       /\ samples' = Append(samples, analogRead(gas_sensor_pin, v))
  /\ cyc' = Append(cyc, "gas")
  /\ Goto("lp_args")
  /\ UNCHANGED <<halted, wdtie, Clock, wdt_cpt, f_wdt, sec, heatPin, heatMode, hsec, heatFor,
                 rstPin, aref, temp, port, data, tx, msSet, msArmed, radioUp, joined,
                 sendStatus, log, ticks, iters, haltTicks, req, awake, lost, boot>>

\* mutant: getTempValue relies on the reference being the default already
getTempValue_ref_kept ==
  /\ Ready("gt_ref")
  /\ aref' = aref
  /\ Goto("gt_read")
  /\ UNCHANGED <<halted, wdtie, Clock, wdt_cpt, f_wdt, sec, heatPin, heatMode, hsec, heatFor,
                 rstPin, gas, temp, port, data, tx, msSet, msArmed, radioUp, joined,
                 sendStatus, log, hist>>

\* analogReference(DEFAULT);
getTempValue_ref ==
  /\ Ready("gt_ref")
  /\ aref' = "DEFAULT"
  /\ Goto("gt_read")
  /\ UNCHANGED <<halted, wdtie, Clock, wdt_cpt, f_wdt, sec, heatPin, heatMode, hsec, heatFor,
                 rstPin, gas, temp, port, data, tx, msSet, msArmed, radioUp, joined,
                 sendStatus, log, hist>>

\* int val = analogRead(temp_sensor_pin); ... return val;
getTempValue_read ==
  /\ Ready("gt_read")
  /\ \E v \in ADCSamples :
       /\ temp' = v
       /\ samples' = Append(samples, analogRead(temp_sensor_pin, v))
  /\ cyc' = Append(cyc, "temp")
  /\ Goto("lp_args")
  /\ UNCHANGED <<halted, wdtie, Clock, wdt_cpt, f_wdt, sec, heatPin, heatMode, hsec, heatFor,
                 rstPin, aref, gas, port, data, tx, msSet, msArmed, radioUp, joined,
                 sendStatus, log, ticks, iters, haltTicks, req, awake, lost, boot>>

\* both arguments are evaluated: loraSendValues(gas, temp, 1) is entered
call_loraSendValues ==
  /\ Ready("lp_args")
  /\ gas # Unset /\ temp # Unset
  /\ port' = TTN_PORT
  /\ Goto("lsv_pack")
  /\ UNCHANGED <<halted, wdtie, Clock, wdt_cpt, f_wdt, sec, heatPin, heatMode, hsec, heatFor,
                 rstPin, aref, gas, temp, data, tx, msSet, msArmed, radioUp, joined,
                 sendStatus, log, hist>>

\* char data[4] = {...}; ttn.sendBytes(data,4,port) is called and blocks
loraSendValues_send ==
  /\ Ready("lsv_pack")
  /\ data' = PackValues(gas, temp)
  /\ tx' = SendBytesArg(data', 4, port)
  /\ Goto("lsv_send")
  /\ UNCHANGED <<halted, wdtie, Clock, wdt_cpt, f_wdt, sec, heatPin, heatMode, hsec, heatFor,
                 rstPin, aref, gas, temp, port, msSet, msArmed, radioUp, joined,
                 sendStatus, log, hist>>

\* mutant: a reading whose transmission failed is kept for the next cycle
loraSendValues_return_keep ==
  /\ Ready("lsv_send")
  /\ \E st \in Statuses :
       /\ st = "success" => (radioUp /\ joined)
       /\ sendStatus' = st
       /\ lost' = (lost \/ st # "success")
       /\ gas' = IF st = "success" THEN Unset ELSE gas
  /\ tx' = NoTx
  /\ samples' = <<>>
  /\ data' = <<>>
  /\ temp' = Unset
  /\ cyc' = Append(cyc, "send")
  /\ Goto("lp_sleep")
  /\ UNCHANGED <<halted, wdtie, Clock, wdt_cpt, f_wdt, sec, heatPin, heatMode, hsec, heatFor,
                 rstPin, aref, port, msSet, msArmed, radioUp, joined, log, ticks,
                 iters, haltTicks, req, awake, boot>>

\* ttn.sendBytes returns a status; loraSendValues returns it; loop() drops it
loraSendValues_return ==
  /\ Ready("lsv_send")
  /\ \E st \in Statuses :
       /\ st = "success" => (radioUp /\ joined)
       /\ sendStatus' = st
       /\ lost' = (lost \/ st # "success")
  /\ tx' = NoTx
  /\ samples' = <<>>
  /\ data' = <<>>
  /\ gas' = Unset /\ temp' = Unset
  /\ cyc' = Append(cyc, "send")
  /\ Goto("lp_sleep")
  /\ UNCHANGED <<halted, wdtie, Clock, wdt_cpt, f_wdt, sec, heatPin, heatMode, hsec, heatFor,
                 rstPin, aref, port, msSet, msArmed, radioUp, joined, log, ticks,
                 iters, haltTicks, req, awake, boot>>

\* mutant: a failed send is tried again before sleeping
call_goToSleep_retry ==
  /\ Ready("lp_sleep")
  /\ IF sendStatus \in {"success", "none"}
       THEN /\ sec' = SLEEP_SEC /\ req' = SLEEP_SEC
            /\ cyc' = Append(cyc, "sleep")
            /\ Goto("gs_entry")
       ELSE /\ sec' = sec /\ req' = req
            /\ cyc' = <<"heat">>
            /\ Goto("lp_args")
  /\ sendStatus' = "none"
  /\ UNCHANGED <<halted, wdtie, Clock, wdt_cpt, f_wdt, heatPin, heatMode, hsec, heatFor, rstPin,
                 aref, gas, temp, port, data, tx, msSet, msArmed, radioUp, joined,
                 log, ticks, iters, haltTicks, awake, lost, samples, boot>>

\* the status returned by loraSendValues is dropped; goToSleep(120) is called
call_goToSleep ==
  /\ Ready("lp_sleep")
  /\ sec' = SLEEP_SEC
  /\ req' = SLEEP_SEC
  /\ sendStatus' = "none"
  /\ cyc' = Append(cyc, "sleep")
  /\ Goto("gs_entry")
  /\ UNCHANGED <<halted, wdtie, Clock, wdt_cpt, f_wdt, heatPin, heatMode, hsec, heatFor, rstPin,
                 aref, gas, temp, port, data, tx, msSet, msArmed, radioUp, joined,
                 log, ticks, iters, haltTicks, awake, lost, samples, boot>>

(* ----------------------------- goToSleep() ----------------------------- *)
\* mutant: the counter is not reset on entry
goToSleep_entry_noReset ==
  /\ Ready("gs_entry")
  /\ sec' = Shr3(sec)
  /\ ticks' = 0 /\ iters' = 0 /\ haltTicks' = 0
  /\ awake' = wdt_cpt
  /\ Goto("gs_print")
  /\ UNCHANGED <<halted, wdtie, Clock, wdt_cpt, f_wdt, heatPin, heatMode, hsec, heatFor, rstPin,
                 aref, gas, temp, port, data, tx, msSet, msArmed, radioUp, joined,
                 sendStatus, log, req, lost, samples, cyc, boot>>

\* sec=sec>>3; wdt_cpt=0;
goToSleep_entry ==
  /\ Ready("gs_entry")
  /\ sec' = Shr3(sec)
  /\ wdt_cpt' = 0
  /\ ticks' = 0 /\ iters' = 0 /\ haltTicks' = 0
  /\ awake' = wdt_cpt
  /\ Goto("gs_print")
  /\ UNCHANGED <<halted, wdtie, Clock, f_wdt, heatPin, heatMode, hsec, heatFor, rstPin, aref,
                 gas, temp, port, data, tx, msSet, msArmed, radioUp, joined,
                 sendStatus, log, req, lost, samples, cyc, boot>>

\* int real_period = 8*sec; debugSerial.print(...) three times
goToSleep_print ==
  /\ Ready("gs_print")
  /\ Goto("gs_test")
  /\ UNCHANGED <<halted, Clock, machine>>

\* while(wdt_cpt<sec): the body is entered (print("* "); delay(100);) or the
\* loop ends
goToSleep_test ==
  /\ Ready("gs_test")
  /\ IF wdt_cpt < sec
       THEN iters' = iters + 1 /\ Goto("gs_delay1")
       ELSE iters' = iters /\ Goto("gs_reset2")
  /\ UNCHANGED <<halted, wdtie, Clock, wdt_cpt, f_wdt, sec, heatPin, heatMode, hsec, heatFor,
                 rstPin, aref, gas, temp, port, data, tx, msSet, msArmed, radioUp,
                 joined, sendStatus, log, ticks, haltTicks, req, awake, lost, samples, cyc, boot>>

\* delay(100) is over; sleep_8s() is called
goToSleep_delay1 ==
  /\ Ready("gs_delay1")
  /\ Goto("s8_sleep")
  /\ UNCHANGED <<halted, Clock, machine>>

\* mutant: the processor is never halted (sleep_mode() left out)
sleep_8s_noHalt ==
  /\ Ready("s8_sleep")
  /\ Goto("s8_wake")
  /\ UNCHANGED <<halted, Clock, machine>>

\* set_sleep_mode(SLEEP_MODE_PWR_DOWN); sleep_enable(); sleep_mode();
sleep_8s_halt ==
  /\ Ready("s8_sleep")
  /\ halted' = TRUE
  /\ Goto("s8_wake")
  /\ UNCHANGED <<Clock, machine>>

\* an interrupt ended the halt: sleep_disable(); power_all_enable(); then delay(100)
sleep_8s_wake ==
  /\ Ready("s8_wake")
  /\ Goto("gs_delay2")
  /\ UNCHANGED <<halted, Clock, machine>>

\* delay(100) is over; back to the loop test
goToSleep_delay2 ==
  /\ Ready("gs_delay2")
  /\ Goto("gs_test")
  /\ UNCHANGED <<halted, Clock, machine>>

\* wdt_cpt=0; after the loop
goToSleep_reset ==
  /\ Ready("gs_reset2")
  /\ wdt_cpt' = 0
  /\ Goto("gs_wake")
  /\ UNCHANGED <<halted, wdtie, Clock, f_wdt, sec, heatPin, heatMode, hsec, heatFor, rstPin,
                 aref, gas, temp, port, data, tx, msSet, msArmed, radioUp, joined,
                 sendStatus, log, hist>>

\* debugSerial.println("Wake up !"); goToSleep returns, loop() returns and is called again
goToSleep_return ==
  /\ Ready("gs_wake")
  /\ cyc' = <<>>
  /\ ticks' = 0 /\ iters' = 0 /\ haltTicks' = 0 /\ awake' = 0
  /\ Goto("lp_delay")
  /\ UNCHANGED <<halted, wdtie, Clock, wdt_cpt, f_wdt, sec, heatPin, heatMode, hsec, heatFor,
                 rstPin, aref, gas, temp, port, data, tx, msSet, msArmed, radioUp,
                 joined, sendStatus, log, req, lost, samples, boot>>

(* --------------------------- specifications ---------------------------- *)
Init ==
  /\ pc = "su_pin" /\ waited = 0 /\ halted = FALSE
  /\ wdtie = FALSE /\ elapsed = 0
  /\ wdt_cpt = 0 /\ f_wdt = 0 /\ sec = 0
  /\ heatPin = "LOW" /\ heatMode = "INPUT" /\ rstPin = "LOW"
  /\ hsec = 0 /\ heatFor = 0
  /\ aref = "DEFAULT"
  /\ gas = Unset /\ temp = Unset /\ port = TTN_PORT
  /\ data = <<>> /\ tx = NoTx
  /\ msSet = FALSE /\ msArmed = FALSE /\ msCount = 0
  /\ radioUp = FALSE /\ joined = FALSE /\ sendStatus = "none"
  /\ log = 0
  /\ ticks = 0 /\ iters = 0 /\ haltTicks = 0 /\ req = 0 /\ awake = 0
  /\ lost = FALSE /\ samples = <<>> /\ cyc = <<>> /\ boot = <<>>

Setup ==
  \/ setup_pinMode \/ setup_timer \/ setupWatchdog
  \/ resetRN2483_low \/ resetRN2483_high
  \/ loraInit_start \/ loraInit_stop \/ loraJoin

Cycle ==
  \/ call_heat \/ heat_high \/ heat_low
  \/ call_getGasValue \/ call_getTempValue
  \/ getGasValue_ref \/ getGasValue_read
  \/ getTempValue_ref \/ getTempValue_read
  \/ call_loraSendValues \/ loraSendValues_send \/ loraSendValues_return
  \/ call_goToSleep

Sleep ==
  \/ goToSleep_entry \/ goToSleep_print \/ goToSleep_test
  \/ goToSleep_delay1 \/ sleep_8s_halt \/ sleep_8s_wake \/ goToSleep_delay2
  \/ goToSleep_reset \/ goToSleep_return

Next == Setup \/ Cycle \/ Sleep \/ PassTime \/ WDT_vect \/ timeoutHandler

Spec == Init /\ [][Next]_vars

\* the processor runs and time passes: some enabled step is eventually taken
FairSpec == Spec /\ WF_vars(Next)

BootDone == <<"pin", "wdt", "radio", "join">>
CycleDone == <<"heat", "gas", "temp", "send", "sleep">>

\* the state setup() leaves behind, with the watchdog at any point of its period
Running ==
  /\ waited = 0 /\ halted = FALSE
  /\ wdtie = TRUE /\ elapsed \in 0..Period
  /\ f_wdt = 0
  /\ heatPin = "LOW" /\ heatMode = "OUTPUT" /\ rstPin = "HIGH"
  /\ data = <<>> /\ tx = NoTx
  /\ msSet = TRUE /\ msArmed = FALSE /\ msCount = 0
  /\ radioUp = TRUE /\ joined = TRUE /\ sendStatus = "none"
  /\ log = 0
  /\ ticks = 0 /\ iters = 0 /\ haltTicks = 0 /\ awake = 0
  /\ lost = FALSE /\ boot = BootDone

\* goToSleep(D) called for every D tried, after any number of ticks spent awake
SleepArgs == (0..MaxSleepArg) \cup {SLEEP_SEC}

InitSleep ==
  /\ Running
  /\ pc = "gs_entry"
  /\ sec \in SleepArgs /\ req = sec
  /\ wdt_cpt \in 0..MaxAwakeTicks
  /\ aref = "DEFAULT"
  /\ gas = Unset /\ temp = Unset /\ port = TTN_PORT
  /\ cyc = CycleDone /\ samples = <<>>
  /\ hsec = HEAT_SEC /\ heatFor \in HeatDelays(HEAT_SEC)

NextSleep == Sleep \/ PassTime \/ WDT_vect

SpecSleep == InitSleep /\ [][NextSleep]_vars

\* loraSendValues(g, t, p) called for g over the whole range of the converter
\* with t over the samples, and the other way round
InitPack ==
  /\ Running /\ elapsed = 0
  /\ pc = "lsv_pack"
  /\ sec = 0 /\ req = 0 /\ wdt_cpt = 0
  /\ aref = "DEFAULT"
  /\ \/ gas \in ADCRange /\ temp \in ADCSamples
     \/ gas \in ADCSamples /\ temp \in ADCRange
  /\ port \in 1..MaxPort
  /\ cyc = <<"heat", "gas", "temp">>
  /\ hsec = HEAT_SEC /\ heatFor \in HeatDelays(HEAT_SEC)
  /\ samples = << [pin |-> gas_sensor_pin, ref |-> "INTERNAL", val |-> gas],
                  [pin |-> temp_sensor_pin, ref |-> "DEFAULT", val |-> temp] >>

NextPack == loraSendValues_send \/ loraSendValues_return

SpecPack == InitPack /\ [][NextPack]_vars

\* heat(s) called for every s tried, the first product that leaves the 16-bit
\* int included
HeatArgs == 0..MaxHeatSec

InitHeat ==
  /\ Running /\ elapsed = 0
  /\ pc = "ht_high"
  /\ hsec \in HeatArgs /\ heatFor = 0
  /\ sec = 0 /\ req = 0 /\ wdt_cpt = 0
  /\ aref = "DEFAULT"
  /\ gas = Unset /\ temp = Unset /\ port = TTN_PORT
  /\ cyc = <<>> /\ samples = <<>>

NextHeat == heat_high \/ heat_low \/ PassTime \/ WDT_vect

SpecHeat == InitHeat /\ [][NextHeat]_vars

(* ------------------------------- phases -------------------------------- *)
StartupPcs == {"su_pin", "su_timer", "su_wdt", "rr_begin", "rr_low", "rr_high",
               "li_status", "lj_personalize"}
HeatingPcs == {"lp_delay", "ht_high", "ht_delay"}
SamplingPcs == {"lp_args", "gg_ref", "gg_read", "gt_ref", "gt_read"}
TransmittingPcs == {"lsv_pack", "lsv_send", "lp_sleep"}

Phase ==
  CASE pc \in StartupPcs      -> "Startup"
    [] pc \in HeatingPcs      -> "Heating"
    [] pc \in SamplingPcs     -> "Sampling"
    [] pc \in TransmittingPcs -> "Transmitting"
    [] pc \in SleepPcs        -> "Sleeping"

\* the loop of goToSleep has ended
AtExit == pc \in {"gs_reset2", "gs_wake"}
\* big-endian reading of two bytes
BE16(hi, lo) == 256 * hi + lo
NoDup(q) == \A i, j \in 1..Len(q) : q[i] = q[j] => i = j
Range(q) == {q[i] : i \in 1..Len(q)}
Before(q, a, b) == \E i, j \in 1..Len(q) : i < j /\ q[i] = a /\ q[j] = b

(* ------------------------------- claims -------------------------------- *)

\* C1: for every D that is a multiple of 8, goToSleep(D) sees exactly D/8
\* watchdog firings between its entry reset and the loop test that ends the wait.
C1_ExactTicks == (AtExit /\ req % 8 = 0) => ticks = req \div 8

\* C2: goToSleep(D) never returns before D/8 - 1 watchdog periods were spent
\* halted in the call: at most one firing is taken while the processor is awake.
C2_BoundedUndercount == AtExit => haltTicks >= (req \div 8) - 1

\* C2 witness: a call that lost one period to a firing taken while awake
C2_Witness == AtExit /\ req >= 16 /\ haltTicks = (req \div 8) - 1 /\ ticks = req \div 8

\* C3: within a cycle the heater step is first, then both samples (in either
\* order), then the send, then goToSleep; no step is skipped or repeated.
C3_PhaseOrder ==
  /\ Phase = "Heating" => cyc = <<>>
  /\ pc = "lp_args" => cyc \in { <<"heat">>, <<"heat", "gas">>, <<"heat", "temp">>,
                                 <<"heat", "gas", "temp">>, <<"heat", "temp", "gas">> }
  /\ pc \in {"gg_ref", "gg_read"} => cyc \in { <<"heat">>, <<"heat", "temp">> }
  /\ pc \in {"gt_ref", "gt_read"} => cyc \in { <<"heat">>, <<"heat", "gas">> }
  /\ pc \in {"lsv_pack", "lsv_send"} =>
       cyc \in { <<"heat", "gas", "temp">>, <<"heat", "temp", "gas">> }
  /\ pc = "lp_sleep" =>
       cyc \in { <<"heat", "gas", "temp", "send">>, <<"heat", "temp", "gas", "send">> }
  /\ Phase = "Sleeping" =>
       cyc \in { <<"heat", "gas", "temp", "send", "sleep">>,
                 <<"heat", "temp", "gas", "send", "sleep">> }

\* C3 witness: a whole cycle is done and goToSleep is about to return
C3_Witness == pc = "gs_wake" /\ cyc = <<"heat", "temp", "gas", "send", "sleep">>

\* C4: whatever the send returned, the next step of loop() is the call
\* goToSleep(120): no retry, no branch on the status.
C4_SleepAfterSend ==
  /\ [][(pc = "lsv_send" /\ pc' # pc) => pc' = "lp_sleep"]_vars
  /\ [][(pc = "lp_sleep" /\ pc' # pc) => (pc' = "gs_entry" /\ sec' = SLEEP_SEC)]_vars

\* C4 witness: the send has returned a fatal failure and loop() goes on
C4_Witness == pc = "lp_sleep" /\ sendStatus = "config_failure"

\* C5: the payload handed to the radio is this cycle's two readings and nothing
\* else, whether or not earlier transmissions failed; between the send and the
\* next sampling no reading, payload or status is kept.
C5_PayloadOfThisCycle ==
  /\ pc = "lsv_send" =>
       /\ BE16(tx.payload[1], tx.payload[2]) = gas
       /\ BE16(tx.payload[3], tx.payload[4]) = temp
       /\ Len(tx.payload) = 4
  /\ (Phase \in {"Sleeping", "Heating"} \/ pc = "lp_sleep") =>
       /\ gas = Unset /\ temp = Unset
       /\ data = <<>> /\ tx = NoTx
  /\ Phase \in {"Sleeping", "Heating", "Sampling"} => sendStatus = "none"

\* C5 witness: a send after an earlier transmission failed
C5_Witness ==
  /\ pc = "lsv_send" /\ lost /\ joined
  /\ gas = 300 /\ temp = 900 /\ tx.payload = <<1, 44, 3, 132>>

\* C6: loraSendValues(g, t, port) hands the radio 4 bytes
\* (g>>8, g&0xFF, t>>8, t&0xFF) on the given port; they read back as g and t.
C6_Packing ==
  pc = "lsv_send" =>
    /\ tx.length = 4 /\ tx.port = port
    /\ tx.payload = << gas \div 256, gas % 256, temp \div 256, temp % 256 >>
    /\ \A i \in 1..4 : tx.payload[i] \in 0..255
    /\ BE16(tx.payload[1], tx.payload[2]) = gas
    /\ BE16(tx.payload[3], tx.payload[4]) = temp
    /\ (gas = 300 /\ temp = 900) => tx.payload = <<1, 44, 3, 132>>

\* C6 witness: the spec's example, and a low byte above 127
C6_Witness ==
  /\ pc = "lsv_send" /\ gas = 300 /\ temp = 900
  /\ tx.payload = <<1, 44, 3, 132>> /\ data[4] < 0

\* C7: for D a multiple of 8 the loop of goToSleep(D) runs exactly D/8 times.
C7_ExactIterations == (AtExit /\ req % 8 = 0) => iters = req \div 8

C9_StartupOnce ==
  /\ NoDup(boot)
  /\ Range(boot) \subseteq Range(BootDone)
  /\ Phase # "Startup" => Range(boot) = Range(BootDone)
  /\ "join" \in Range(boot) => Before(boot, "radio", "join")
  /\ tx # NoTx => "join" \in Range(boot)
  /\ pc = "lj_personalize" => Range(boot) = {"pin", "wdt", "radio"}

\* C9 witness: join failed, was not repeated, and the first cycle has begun
C9_Witness == Phase = "Heating" /\ boot = BootDone /\ radioUp /\ ~joined

\* the radio did not answer during bring-up, or the join has failed
StartupFailed ==
  \/ pc = "lj_personalize" /\ ~radioUp
  \/ Phase # "Startup" /\ ~(radioUp /\ joined)

\* C10: after a failed bring-up or join the device does not stop: from then on
\* it heats, samples, attempts a transmission and sleeps, again and again.
C10_DegradedCycle ==
  /\ StartupFailed ~> (pc = "ht_delay" /\ heatPin = "HIGH")
  /\ StartupFailed ~> (pc \in {"gg_read", "gt_read"})
  /\ StartupFailed ~> (pc = "lsv_send")
  /\ StartupFailed ~> (pc = "s8_wake" /\ halted)

\* C10 witness: a transmission is attempted although the radio never came up
C10_Witness == pc = "lsv_send" /\ ~radioUp /\ ~joined /\ lost

\* C11: the timeout guard is armed only while ttn.showStatus() runs inside
\* loraInit: it is armed when the query starts, stays armed until the query
\* returns or the guard fires, and is never armed during the join or in any
\* phase of the duty cycle.
C11_GuardOnlyAroundStatus ==
  /\ msArmed => pc = "li_status"
  /\ (pc = "li_status" /\ log = 0) => (msArmed /\ msCount = waited)
  /\ pc \in {"su_pin", "su_timer", "su_wdt", "rr_begin", "rr_low", "rr_high"} => ~msArmed
  /\ (pc = "lj_personalize" \/ Phase # "Startup") => (~msArmed /\ msCount = 0)

\* C11 witness: the query has been running for ten seconds with the guard armed
C11_Witness == pc = "li_status" /\ msArmed /\ msCount = 100 /\ waited = 100

\* a step of timeoutHandler
GuardFires == log' # log

\* C12: when the guard fires it prints and disarms itself and changes nothing
\* else (position of execution, tick counter, heater, radio state); it fires at
\* most once, and after the query has returned the timer is stopped and cleared
\* whether or not it fired.
C12_GuardFrame ==
  /\ [][GuardFires =>
          /\ msArmed /\ ~msArmed' /\ log' = log + 1 /\ pc = "li_status"
          /\ UNCHANGED <<pc, waited, halted, wdtie, elapsed, wdt_cpt, f_wdt, sec,
                         heatPin, heatMode, hsec, heatFor, rstPin, aref, gas, temp, port, data,
                         tx, msSet, radioUp, joined, sendStatus>>]_vars
  /\ [](log \in {0, 1})
  /\ []((log = 1 /\ pc # "li_status") => (~msArmed /\ msCount = 0))

\* C12 witness: the guard fired (after a watchdog tick had been counted) and
\* startup went on into the duty cycle
C12_Witness == log = 1 /\ pc = "ht_delay" /\ heatPin = "HIGH" /\ joined

\* C13: with the watchdog firing and every radio call returning, no state is
\* terminal: every call of goToSleep returns, and each of the phases Heating,
\* Sampling, Transmitting and Sleeping is entered again and again.
C13_NoTerminalState ==
  /\ (pc \in SleepPcs) ~> (pc = "lp_delay")
  /\ []<>(Phase = "Heating")
  /\ []<>(Phase = "Sampling")
  /\ []<>(Phase = "Transmitting")
  /\ []<>(Phase = "Sleeping")

\* C13 witness: a later cycle is heating after an earlier goToSleep returned
C13_Witness == pc = "ht_delay" /\ lost /\ Len(cyc) = 0 /\ wdt_cpt = 0

\* the program variables an interrupt handler could touch, wdt_cpt aside
Program == <<pc, f_wdt, sec, heatPin, heatMode, hsec, heatFor, rstPin, aref, gas, temp, port,
             data, tx, msSet, msArmed, radioUp, joined, sendStatus, log>>

\* C14: wdt_cpt is written by two parties only. The watchdog handler adds one
\* to it and changes no other program state; the main line writes it only in
\* goToSleep (entry and exit) and only by storing zero; every other main-line
\* step leaves it as it is.
C14_AccessDiscipline ==
  [][/\ (pc' = pc /\ wdt_cpt' # wdt_cpt) =>
          (wdt_cpt' = wdt_cpt + 1 /\ UNCHANGED Program)
     /\ (pc' # pc /\ wdt_cpt' # wdt_cpt) =>
          (pc \in {"gs_entry", "gs_reset2"} /\ wdt_cpt' = 0)
     /\ (pc' # pc /\ pc \in {"gs_entry", "gs_reset2"}) => wdt_cpt' = 0]_vars

\* C14 witness: the handler has counted up to the target and the main line is
\* about to store zero
C14_Witness == pc = "gs_reset2" /\ wdt_cpt = sec /\ sec = 15 /\ haltTicks > 0

\* C15: goToSleep(D) with D not a multiple of 8 runs as goToSleep(8 * (D / 8)):
\* the tick target is D / 8 rounded down and the loop ends once that many
\* firings were counted; for 0 <= D < 8 the loop body and the halt are never
\* entered, and the exit still stores zero in wdt_cpt.
C15_FloorOfArgument ==
  /\ []((pc \in SleepPcs \ {"gs_entry"}) =>
          /\ sec = req \div 8
          /\ sec = Shr3(8 * (req \div 8)))
  /\ [](AtExit => (ticks >= req \div 8 /\ iters <= req \div 8))
  /\ []((pc \in SleepPcs /\ req < 8) =>
          /\ pc \in {"gs_entry", "gs_print", "gs_test", "gs_reset2", "gs_wake"}
          /\ ~halted /\ iters = 0 /\ haltTicks = 0)
  /\ [][(pc = "gs_reset2" /\ pc' # pc) => (pc' = "gs_wake" /\ wdt_cpt' = 0)]_vars

\* C15 witness: a call with a non-multiple of 8 has ended after its floor of ticks
C15_Witness == pc = "gs_wake" /\ req = 23 /\ ticks = 2 /\ iters = 2 /\ haltTicks = 2

\* C15 witness for the short arguments: goToSleep(7) is returning, never halted
C15_WitnessShort == pc = "gs_wake" /\ req = 7 /\ iters = 0 /\ wdt_cpt = 0

\* C16: the heater output is high exactly while heat() is in its delay: heat()
\* raises it on entry and lowers it before returning, and it is low during
\* startup, sampling, transmitting and goToSleep.
C16_HeaterOnlyWhileHeating ==
  /\ heatPin = "HIGH" <=> pc = "ht_delay"
  /\ Phase \in {"Startup", "Sampling", "Transmitting", "Sleeping"} => heatPin = "LOW"
  /\ heatPin = "HIGH" => heatMode = "OUTPUT"

\* C16 witness: the heating delay has run its full time with the pin high
C16_Witness == pc = "ht_delay" /\ heatPin = "HIGH" /\ waited = HeatDelay(HEAT_SEC)

\* the conversions of this cycle made on input p
SamplesOf(p) == {i \in 1..Len(samples) : samples[i].pin = p}

\* C17: whichever of getGasValue() and getTempValue() runs first, the gas input
\* is converted against the internal 1.1 V reference and the temperature input
\* against the default one, and the payload carries the gas conversion in
\* bytes 0-1 and the temperature conversion in bytes 2-3.
C17_OwnReferenceEitherOrder ==
  /\ pc = "gg_read" => aref = "INTERNAL"
  /\ pc = "gt_read" => aref = "DEFAULT"
  /\ \A i \in SamplesOf(gas_sensor_pin) :
       samples[i].ref = "INTERNAL" /\ samples[i].val = gas
  /\ \A i \in SamplesOf(temp_sensor_pin) :
       samples[i].ref = "DEFAULT" /\ samples[i].val = temp
  /\ pc \in {"lsv_pack", "lsv_send"} =>
       /\ Len(samples) = 2
       /\ Cardinality(SamplesOf(gas_sensor_pin)) = 1
       /\ Cardinality(SamplesOf(temp_sensor_pin)) = 1
  /\ pc = "lsv_send" =>
       /\ \A i \in SamplesOf(gas_sensor_pin) :
            BE16(tx.payload[1], tx.payload[2]) = samples[i].val
       /\ \A i \in SamplesOf(temp_sensor_pin) :
            BE16(tx.payload[3], tx.payload[4]) = samples[i].val

\* C17 witness: the temperature was converted first, then the gas; the payload
\* still has the gas conversion first
C17_Witness ==
  /\ pc = "lsv_send"
  /\ samples = << [pin |-> temp_sensor_pin, ref |-> "DEFAULT", val |-> 900],
                  [pin |-> gas_sensor_pin, ref |-> "INTERNAL", val |-> 300] >>
  /\ tx.payload = <<1, 44, 3, 132>>
  /\ aref = "INTERNAL"

\* C18: heat(sec) blocks for sec seconds for every sec >= 0 of its 16-bit int
\* parameter: the delay started in heat() is 1000 * sec milliseconds, the
\* mathematical product.
C18_HeatBlocksSec ==
  pc = "ht_delay" => (heatFor = (1000 * hsec) \div MsPerUnit /\ waited <= heatFor)

====
